---------------------------- MODULE Spec2Model ----------------------------
(***************************************************************************)
(* A model of redis/scan.go: the reply-binding layer of redigo.            *)
(*                                                                         *)
(*   - the struct field-spec compiler (compileStructSpec),                 *)
(*   - the spec cache (structSpecForType) under its RWMutex,               *)
(*   - the conversion engine (convertAssign and its helpers),              *)
(*   - the binding operations Scan, ScanStruct, AppendStruct.              *)
(*                                                                         *)
(* Go strings and []byte values are sequences of one-character strings,    *)
(* so that splitting a tag and parsing a number are computed, not assumed. *)
(***************************************************************************)
EXTENDS Integers, Sequences, FiniteSets, TLC

VARIABLES
    \* ---- compileStructSpec applied to one struct type
    ctype,              \* the reflect.Type handed to compileStructSpec
    cout,               \* its outcome: [st |-> "pending"] or the compiled result
    \* ---- structSpecForType called concurrently
    structSpecCache,    \* map[reflect.Type]*structSpec: type -> pointer (0: absent)
    structSpecMutex,    \* sync.RWMutex: [readers |-> set of goroutines, writer |-> goroutine or 0]
    heap,               \* the allocated structSpec objects: pointer -> structSpec
    pc,                 \* each goroutine's position in structSpecForType
    targ,               \* each goroutine's argument t
    lss,                \* each goroutine's local ss (a pointer, 0: nil)
    lfound,             \* each goroutine's local found
    ret,                \* what each goroutine's last call returned
    ncalls,             \* calls started so far
    \* ---- convertAssign applied to one destination and one source value
    cdest,              \* the destination d, as it was before the call
    csrc,               \* the source value s
    cres,               \* the outcome: the destination after the call, and err
    \* ---- Scan called on a reply, and again on the remainder it returned
    stream,             \* the reply the first call is given
    src,                \* the src of the last call
    destIn,             \* the dest of the last call, as it was before the call
    taken,              \* how many values of stream the calls before the last one consumed
    sres,               \* the outcome of the last call: remainder, err, dest after it
    \* ---- AppendStruct on a struct, then ScanStruct of its result into a zeroed one
    asrc,               \* the src handed to AppendStruct (or FlattenStruct)
    ares,               \* the outcome of AppendStruct: args, err, or a panic
    stres               \* the outcome of ScanStruct: err, the struct as it leaves it

compileVars == <<ctype, cout>>
cacheVars == <<structSpecCache, structSpecMutex, heap, pc, targ, lss, lfound, ret, ncalls>>
convertVars == <<cdest, csrc, cres>>
scanVars == <<stream, src, destIn, taken, sres>>
structVars == <<asrc, ares, stres>>
notCacheVars == <<compileVars, convertVars, scanVars, structVars>>
vars == <<compileVars, cacheVars, convertVars, scanVars, structVars>>

---------------------------------------------------------------------------
(* Bounds of the model *)

\* fields declared directly in the outer struct type
MaxFields == 3
\* levels of embedded structs above a plain field
MaxDepth == 1

\* integer sources reach from -(2^MaxPow + 1) to 2^MaxPow + 1
MaxPow == 17
\* values in the reply handed to Scan
MaxSrc == 3
\* destinations handed to one call of Scan
MaxDest == 2
\* fields declared directly in a struct that is flattened and scanned back
RtFields == 2
\* levels of embedded structs in such a struct
RtDepth == 1
\* goroutines calling structSpecForType
NumProcs == 2
\* calls of structSpecForType started in one behaviour
MaxCalls == 3

(* Program constants *)

\* the depth of a name that was not seen yet: 1 << 30
NotFoundDepth == 1073741824

---------------------------------------------------------------------------
(* Strings *)

Str1(c) == <<c>>

RECURSIVE IndexOf(_, _, _)
\* strings.Index(s[i:], sep) for a one-character sep: the first position >= i
\* holding sep, or 0
IndexOf(s, sep, i) ==
    IF i > Len(s) THEN 0
    ELSE IF s[i] = sep THEN i
    ELSE IndexOf(s, sep, i + 1)

RECURSIVE Split(_, _)
\* strings.Split(s, sep): always at least one piece, "" for the empty string
Split(s, sep) ==
    LET k == IndexOf(s, sep, 1) IN
    IF k = 0 THEN <<s>>
    ELSE <<SubSeq(s, 1, k - 1)>> \o Split(SubSeq(s, k + 1, Len(s)), sep)

---------------------------------------------------------------------------
(* Maps (Go map[K]V): functions on the set of their keys *)

EmptyMap == [x \in {} |-> 0]

MapPut(m, k, v) == [x \in (DOMAIN m) \cup {k} |-> IF x = k THEN v ELSE m[x]]

MapDelete(m, k) == [x \in (DOMAIN m) \ {k} |-> m[x]]

---------------------------------------------------------------------------
(* reflect.Type and reflect.StructField, as far as scan.go reads them *)

\* a type that is not a struct: only its kind matters
BasicType(kind) == [Kind |-> kind, TName |-> Str1(kind), Fields |-> <<>>, Elem |-> <<>>]

\* a slice type: Elem holds its element type
SliceType(elem) ==
    [Kind |-> "slice", TName |-> <<"[]">> \o elem.TName, Fields |-> <<>>, Elem |-> <<elem>>]

StructType(name, fields) ==
    [Kind |-> "struct", TName |-> name, Fields |-> fields, Elem |-> <<>>]

\* an exported, named field
PlainField(name, tag, typ) ==
    [Name |-> name, PkgPath |-> <<>>, Anonymous |-> FALSE, Tag |-> tag, Type |-> typ]

\* an unexported field: PkgPath is the package's path
UnexportedField(name, typ) ==
    [Name |-> name, PkgPath |-> <<"r">>, Anonymous |-> FALSE, Tag |-> <<>>, Type |-> typ]

\* an embedded (anonymous) field
EmbeddedField(typ) ==
    [Name |-> typ.TName, PkgPath |-> <<>>, Anonymous |-> TRUE, Tag |-> <<>>, Type |-> typ]

NumField(t) == Len(t.Fields)

---------------------------------------------------------------------------
(* compileStructSpec *)

\* ss = &structSpec{m: make(map[string]*fieldSpec)}
NewStructSpec == [m |-> EmptyMap, l |-> <<>>]

RECURSIVE RemoveName(_, _)
\* the loop that drops every entry named name from ss.l
RemoveName(l, name) ==
    IF l = <<>> THEN <<>>
    ELSE IF Head(l).name # name THEN <<Head(l)>> \o RemoveName(Tail(l), name)
    ELSE RemoveName(Tail(l), name)

\* the flags of a tag, p[1:]: any flag panics, the first one met
FlagPanic(p, t) ==
    IF Len(p) > 1 THEN <<[flag |-> p[2], type |-> t.TName]>> ELSE <<>>

\* the switch on len(index) against the depth recorded for fs.name; fs.index is
\* index with the field's number i appended (field 1 of the model is Go's field 0)
ShadowSwitch(fsname, i, depth, index, ss) ==
    LET d == IF fsname \in DOMAIN depth THEN depth[fsname] ELSE NotFoundDepth IN
    IF Len(index) = d
    THEN [depth |-> depth,
          ss |-> [m |-> MapDelete(ss.m, fsname), l |-> RemoveName(ss.l, fsname)]]
    ELSE IF Len(index) < d
    THEN LET fs == [name |-> fsname, index |-> Append(index, i - 1)] IN
         [depth |-> MapPut(depth, fsname, Len(index)),
          ss |-> [m |-> MapPut(ss.m, fsname, fs), l |-> Append(ss.l, fs)]]
    ELSE [depth |-> depth, ss |-> ss]

RECURSIVE compileFields(_, _, _, _, _)
\* the loop of compileStructSpec from field i on. The result is the depth map
\* and *ss as the call leaves them, and the panic it raised, if any.
compileFields(t, i, depth, index, ss) ==
    IF i > NumField(t) THEN [depth |-> depth, ss |-> ss, panic |-> <<>>]
    ELSE
    LET f == t.Fields[i] IN
    IF f.PkgPath # <<>> THEN compileFields(t, i + 1, depth, index, ss)
    ELSE IF f.Anonymous THEN
        IF f.Type.Kind = "struct"
        THEN LET After(r) ==
                     IF r.panic # <<>> THEN r
                     ELSE compileFields(t, i + 1, r.depth, index, r.ss)
             IN After(compileFields(f.Type, 1, depth, Append(index, i - 1), ss))
        ELSE compileFields(t, i + 1, depth, index, ss)
    ELSE
    LET p == Split(f.Tag, ",") IN
    IF p[1] = <<"-">> THEN compileFields(t, i + 1, depth, index, ss)
    ELSE
    LET fsname == IF Len(p[1]) > 0 THEN p[1] ELSE f.Name
        boom == FlagPanic(p, t)
    IN
    IF boom # <<>> THEN [depth |-> depth, ss |-> ss, panic |-> boom]
    ELSE LET After(r) == compileFields(t, i + 1, r.depth, index, r.ss)
         IN After(ShadowSwitch(fsname, i, depth, index, ss))

compileStructSpec(t, depth, index, ss) == compileFields(t, 1, depth, index, ss)

---------------------------------------------------------------------------
(* Values: what an interface{} of a reply, or of an argument list, holds *)

Nil == [k |-> "nil", v |-> 0]
\* []byte: a bulk reply
Bulk(b) == [k |-> "bytes", v |-> b]
\* int64: an integer reply
Int64(n) == [k |-> "int64", v |-> n]
\* []interface{}: a multi-bulk reply
Values(vs) == [k |-> "values", v |-> vs]
\* redis.Error: an error reply
Error(msg) == [k |-> "Error", v |-> msg]
\* a Go string, which no reply holds
GoString(str) == [k |-> "string", v |-> str]

(* Errors *)

NoErr == [e |-> "nil", v |-> <<>>]
\* strconv.ErrRange itself
ErrRange == [e |-> "ErrRange", v |-> <<>>]
\* *strconv.NumError{Func: fn, Err: err}
NumError(fn, err) == [e |-> "NumError", v |-> <<Str1(fn), Str1(err)>>]
\* errors.New(msg)
ErrorsNew(msg) == [e |-> "errors.New", v |-> <<Str1(msg)>>]
\* a protocol-level Error returned as the error
ErrorValue(s) == [e |-> "Error", v |-> <<s.v>>]
\* a run-time panic
Panic(msg) == [e |-> "panic", v |-> <<Str1(msg)>>]

\* fmt.Errorf("redigo: Scan cannot convert from %s to %s", reflect.TypeOf(s), d.Type())
cannotConvert(dtype, s) == [e |-> "cannotConvert", v |-> <<Str1(s.k), dtype.TName>>]

---------------------------------------------------------------------------
(* Kinds and integer widths *)

SignedKinds == {"int", "int8", "int16", "int32", "int64"}
UnsignedKinds == {"uint", "uint8", "uint16", "uint32", "uint64"}
FloatKinds == {"float32", "float64"}

\* reflect.Type.Bits, on a platform whose int has 64 bits
Bits(kind) ==
    CASE kind \in {"int8", "uint8"} -> 8
      [] kind \in {"int16", "uint16"} -> 16
      [] kind \in {"int32", "uint32", "float32"} -> 32
      [] OTHER -> 64

RECURSIVE Pow2(_)
Pow2(n) == IF n = 0 THEN 1 ELSE 2 * Pow2(n - 1)

\* Every integer of the model lies within -2^31 .. 2^31 - 1, so a 32 or 64 bit
\* variable holds each of them exactly; narrower variables keep the low bits.

\* what reflect.Value.SetInt(s) stores in a signed variable of the given
\* width, read back by Int()
WrapSigned(s, bits) ==
    IF bits >= 32 THEN s
    ELSE LET m == s % Pow2(bits) IN
         IF m >= Pow2(bits - 1) THEN m - Pow2(bits) ELSE m

\* what reflect.Value.SetUint(x) stores, read back by Uint(); x >= 0
WrapUnsigned(x, bits) == IF bits >= 32 THEN x ELSE x % Pow2(bits)

\* the zero value of a type
Zero(t) ==
    CASE t.Kind \in SignedKinds \cup UnsignedKinds \cup FloatKinds -> 0
      [] t.Kind = "bool" -> FALSE
      [] t.Kind = "string" -> <<>>
      [] t.Kind = "slice" -> [len |-> 0, arr |-> <<>>]
      [] OTHER -> Nil

---------------------------------------------------------------------------
(* strconv *)

DigitChars == <<"0", "1", "2", "3", "4", "5", "6", "7", "8", "9">>

IsDigit(c) == \E i \in 1..10 : DigitChars[i] = c

DigitVal(c) == (CHOOSE i \in 1..10 : DigitChars[i] = c) - 1

AllDigits(str) == \A i \in 1..Len(str) : IsDigit(str[i])

RECURSIVE DecimalValue(_, _)
DecimalValue(str, acc) ==
    IF str = <<>> THEN acc
    ELSE DecimalValue(Tail(str), 10 * acc + DigitVal(Head(str)))

\* strconv.ParseUint(s, 10, bits)
ParseUint(str, bits) ==
    IF str = <<>> \/ ~AllDigits(str)
    THEN [x |-> 0, err |-> NumError("ParseUint", "ErrSyntax")]
    ELSE LET n == DecimalValue(str, 0) IN
         IF bits < 32 /\ n > Pow2(bits) - 1
         THEN [x |-> Pow2(bits) - 1, err |-> NumError("ParseUint", "ErrRange")]
         ELSE [x |-> n, err |-> NoErr]

\* strconv.ParseInt(s, 10, bits), reporting its errors as function fn
ParseIntAs(fn, str, bits) ==
    IF str = <<>> THEN [x |-> 0, err |-> NumError(fn, "ErrSyntax")]
    ELSE
    LET neg == str[1] = "-"
        body == IF str[1] \in {"+", "-"} THEN Tail(str) ELSE str
    IN
    IF body = <<>> \/ ~AllDigits(body) THEN [x |-> 0, err |-> NumError(fn, "ErrSyntax")]
    ELSE
    LET n == DecimalValue(body, 0) IN
    IF bits < 32 /\ ~neg /\ n >= Pow2(bits - 1)
    THEN [x |-> Pow2(bits - 1) - 1, err |-> NumError(fn, "ErrRange")]
    ELSE IF bits < 32 /\ neg /\ n > Pow2(bits - 1)
    THEN [x |-> 0 - Pow2(bits - 1), err |-> NumError(fn, "ErrRange")]
    ELSE [x |-> IF neg THEN 0 - n ELSE n, err |-> NoErr]

ParseInt(str, bits) == ParseIntAs("ParseInt", str, bits)

\* strconv.Atoi(s)
Atoi(str) == ParseIntAs("Atoi", str, Bits("int"))

\* strconv.ParseFloat(s, bits) on the texts of the model, which are made of
\* digits, signs and the letters t, x, X, Y: only a signed run of digits is a
\* number (no point, exponent, inf or nan can be spelled)
ParseFloat(str, bits) ==
    LET body == IF str # <<>> /\ str[1] \in {"+", "-"} THEN Tail(str) ELSE str IN
    IF body = <<>> \/ ~AllDigits(body)
    THEN [x |-> 0, err |-> NumError("ParseFloat", "ErrSyntax")]
    ELSE [x |-> IF str[1] = "-" THEN 0 - DecimalValue(body, 0) ELSE DecimalValue(body, 0),
          err |-> NoErr]

\* strconv.ParseBool(s)
ParseBool(str) ==
    IF str \in {<<"1">>, <<"t">>, <<"T">>, <<"T", "R", "U", "E">>, <<"t", "r", "u", "e">>,
                <<"T", "r", "u", "e">>}
    THEN [x |-> TRUE, err |-> NoErr]
    ELSE IF str \in {<<"0">>, <<"f">>, <<"F">>, <<"F", "A", "L", "S", "E">>,
                     <<"f", "a", "l", "s", "e">>, <<"F", "a", "l", "s", "e">>}
    THEN [x |-> FALSE, err |-> NoErr]
    ELSE [x |-> FALSE, err |-> NumError("ParseBool", "ErrSyntax")]

---------------------------------------------------------------------------
(* The conversion engine. A reflect.Value d is the type dt of a variable and *)
(* the value dv it holds; each function gives the value it leaves and err.   *)

\* x, err = strconv.Parse...(...); d.Set...(x): the parsed value is stored
\* whether or not err is nil
Parsed(r) == [val |-> r.x, err |-> r.err]

\* convertAssignBytes(d, s)
convertAssignBytes(dt, dv, s) ==
    CASE dt.Kind \in FloatKinds -> Parsed(ParseFloat(s, Bits(dt.Kind)))
      [] dt.Kind \in SignedKinds -> Parsed(ParseInt(s, Bits(dt.Kind)))
      [] dt.Kind \in UnsignedKinds -> Parsed(ParseUint(s, Bits(dt.Kind)))
      [] dt.Kind = "bool" -> Parsed(ParseBool(s))
      [] dt.Kind = "string" -> [val |-> s, err |-> NoErr]
      [] dt.Kind = "slice" ->
            IF dt.Elem[1].Kind # "uint8"
            THEN [val |-> dv, err |-> cannotConvert(dt, Bulk(s))]
            ELSE [val |-> [len |-> Len(s), arr |-> s], err |-> NoErr]
      [] OTHER -> [val |-> dv, err |-> cannotConvert(dt, Bulk(s))]

\* the signed case without the read-back check
SetIntUnchecked(dt, dv, s) == [val |-> WrapSigned(s, Bits(dt.Kind)), err |-> NoErr]

\* d.SetInt(s); if d.Int() != s { err = strconv.ErrRange; d.SetInt(0) }
SetIntChecked(dt, dv, s) ==
    IF WrapSigned(s, Bits(dt.Kind)) # s
    THEN [val |-> 0, err |-> ErrRange]
    ELSE [val |-> WrapSigned(s, Bits(dt.Kind)), err |-> NoErr]

\* the unsigned case: s < 0 is refused, then the same read-back check
SetUintChecked(dt, dv, s) ==
    IF s < 0 THEN [val |-> dv, err |-> ErrRange]
    ELSE IF WrapUnsigned(s, Bits(dt.Kind)) # s
    THEN [val |-> 0, err |-> ErrRange]
    ELSE [val |-> WrapUnsigned(s, Bits(dt.Kind)), err |-> NoErr]

\* convertAssignInt(d, s)
convertAssignInt(dt, dv, s) ==
    CASE dt.Kind \in SignedKinds -> SetIntChecked(dt, dv, s)
      [] dt.Kind \in UnsignedKinds -> SetUintChecked(dt, dv, s)
      [] dt.Kind = "bool" -> [val |-> s # 0, err |-> NoErr]
      [] OTHER -> [val |-> dv, err |-> cannotConvert(dt, Int64(s))]

\* one element of the loop of convertAssignValues: the switch on s[i]
convertElement(dt, ev, sv) ==
    CASE sv.k = "bytes" -> convertAssignBytes(dt.Elem[1], ev, sv.v)
      [] sv.k = "int64" -> convertAssignInt(dt.Elem[1], ev, sv.v)
      [] OTHER -> [val |-> ev, err |-> cannotConvert(dt, sv)]

RECURSIVE convertElements(_, _, _, _)
\* the loop of convertAssignValues from element i on: it stops at the first error
convertElements(dt, arr, s, i) ==
    IF i > Len(s) THEN [arr |-> arr, err |-> NoErr]
    ELSE LET Step(r) ==
                 IF r.err # NoErr THEN [arr |-> [arr EXCEPT ![i] = r.val], err |-> r.err]
                 ELSE convertElements(dt, [arr EXCEPT ![i] = r.val], s, i + 1)
         IN Step(convertElement(dt, arr[i], s[i]))

\* convertAssignValues(d, s). A slice value is its backing array arr (as long
\* as its capacity) and its length len.
convertAssignValues(dt, dv, s) ==
    IF dt.Kind # "slice" THEN [val |-> dv, err |-> cannotConvert(dt, Values(s))]
    ELSE
    LET arr0 == IF Len(s) > Len(dv.arr)
                THEN [i \in 1..Len(s) |-> Zero(dt.Elem[1])]
                ELSE dv.arr
        Sliced(r) == [val |-> [len |-> Len(s), arr |-> r.arr], err |-> r.err]
    IN Sliced(convertElements(dt, arr0, s, 1))

(* Destinations of Scan: dest ...interface{} *)

\* a nil destination
NilDest == [k |-> "nil", t |-> BasicType("nil"), val |-> 0]
\* a pointer to a variable of type t holding val
PtrDest(t, val) == [k |-> "ptr", t |-> t, val |-> val]
\* a value of type t that is not a pointer
ValueDest(t, val) == [k |-> "value", t |-> t, val |-> val]

PtrTo(t) == [Kind |-> "ptr", TName |-> <<"*">> \o t.TName, Fields |-> <<>>, Elem |-> <<t>>]

\* the case of convertAssign's type switches that d falls in
DestCase(d) ==
    CASE d.k = "nil" -> "nil"
      [] d.k = "ptr" /\ d.t.Kind = "string" -> "*string"
      [] d.k = "ptr" /\ d.t.Kind = "int" -> "*int"
      [] d.k = "ptr" /\ d.t.Kind = "bool" -> "*bool"
      [] d.k = "ptr" /\ d.t.Kind = "interface" -> "*interface{}"
      [] d.k = "ptr" /\ d.t.Kind = "slice" /\ d.t.Elem[1].Kind = "uint8" -> "*[]byte"
      [] d.k = "ptr" /\ d.t.Kind = "slice" /\ d.t.Elem[1].Kind = "interface" -> "*[]interface{}"
      [] OTHER -> "default"

Assigned(d, val, err) == [d |-> [d EXCEPT !.val = val], err |-> err]

\* *d, err = strconv.Atoi(...) and the like: both results are assigned
AssignedParsed(d, r) == Assigned(d, r.x, r.err)

\* err = convertAssign...(d.Elem(), s): the variable d points to as the call
\* leaves it
AssignedElem(d, r) == Assigned(d, r.val, r.err)

\* the default case of the inner switches: reflection
convertReflect(d, s) ==
    IF d.k # "ptr" THEN [d |-> d, err |-> cannotConvert(d.t, s)]
    ELSE AssignedElem(d, CASE s.k = "bytes" -> convertAssignBytes(d.t, d.val, s.v)
                           [] s.k = "int64" -> convertAssignInt(d.t, d.val, s.v)
                           [] OTHER -> convertAssignValues(d.t, d.val, s.v))

\* case []byte
convertFromBytes(d, s) ==
    LET c == DestCase(d) IN
    CASE c = "*string" -> Assigned(d, s.v, NoErr)
      [] c = "*int" -> AssignedParsed(d, Atoi(s.v))
      [] c = "*bool" -> AssignedParsed(d, ParseBool(s.v))
      [] c = "*[]byte" -> Assigned(d, [len |-> Len(s.v), arr |-> s.v], NoErr)
      [] c = "*interface{}" -> Assigned(d, s, NoErr)
      [] c = "nil" -> [d |-> d, err |-> NoErr]
      [] OTHER -> convertReflect(d, s)

\* case int64
convertFromInt(d, s) ==
    LET c == DestCase(d) IN
    CASE c = "*int" ->
            LET x == WrapSigned(s.v, Bits("int")) IN
            IF x # s.v THEN Assigned(d, 0, ErrRange) ELSE Assigned(d, x, NoErr)
      [] c = "*bool" -> Assigned(d, s.v # 0, NoErr)
      [] c = "*interface{}" -> Assigned(d, s, NoErr)
      [] c = "nil" -> [d |-> d, err |-> NoErr]
      [] OTHER -> convertReflect(d, s)

\* case []interface{}
convertFromValues(d, s) ==
    LET c == DestCase(d) IN
    CASE c = "*[]interface{}" -> Assigned(d, [len |-> Len(s.v), arr |-> s.v], NoErr)
      [] c = "*interface{}" -> Assigned(d, s, NoErr)
      [] c = "nil" -> [d |-> d, err |-> NoErr]
      [] OTHER -> convertReflect(d, s)

\* convertAssign(d, s): the destination as the call leaves it, and err. A
\* source of no reply type with a nil destination panics: cannotConvert asks
\* the zero reflect.Value for its type.
convertAssign(d, s) ==
    CASE s.k = "nil" -> [d |-> d, err |-> NoErr]
      [] s.k = "bytes" -> convertFromBytes(d, s)
      [] s.k = "int64" -> convertFromInt(d, s)
      [] s.k = "values" -> convertFromValues(d, s)
      [] s.k = "Error" -> [d |-> d, err |-> ErrorValue(s)]
      [] OTHER ->
            IF d.k = "nil"
            THEN [d |-> d, err |-> Panic("reflect: call of reflect.Value.Type on zero Value")]
            ELSE [d |-> d, err |-> cannotConvert(IF d.k = "ptr" THEN PtrTo(d.t) ELSE d.t, s)]

---------------------------------------------------------------------------
(* Scan *)

\* if len(src) < len(dest)
ScanShortOffByOne(src_, dest) == Len(src_) + 1 < Len(dest)

ScanShort(src_, dest) == Len(src_) < Len(dest)

\* a Scan that returns src itself
RemainderWhole(src_, n) == src_

\* src[len(dest):]
Remainder(src_, n) == SubSeq(src_, n + 1, Len(src_))

RECURSIVE ScanLoop(_, _, _)
\* the loop of Scan from destination i on: it stops at the first error;
\* src[i] beyond the end of src is a run-time panic
ScanLoop(src_, dest, i) ==
    IF i > Len(dest) THEN [dest |-> dest, err |-> NoErr]
    ELSE IF i > Len(src_) THEN [dest |-> dest, err |-> Panic("index out of range")]
    ELSE LET Step(r) ==
                 IF r.err # NoErr THEN [dest |-> [dest EXCEPT ![i] = r.d], err |-> r.err]
                 ELSE ScanLoop(src_, [dest EXCEPT ![i] = r.d], i + 1)
         IN Step(convertAssign(dest[i], src_[i]))

\* Scan(src, dest...): what it returns (rest, nil or not, and err), the
\* destinations as it leaves them, and whether it panicked instead of returning
Scan(src_, dest) ==
    IF ScanShort(src_, dest)
    THEN [rest |-> <<>>, restnil |-> TRUE, err |-> ErrorsNew("redigo: Scan multibulk short"),
          dest |-> dest, panic |-> FALSE]
    ELSE LET Returned(r) ==
                 IF r.err.e = "panic" \/ Len(dest) > Len(src_)
                 THEN [rest |-> <<>>, restnil |-> TRUE, err |-> r.err, dest |-> r.dest,
                       panic |-> TRUE]
                 ELSE [rest |-> Remainder(src_, Len(dest)), restnil |-> FALSE, err |-> r.err,
                       dest |-> r.dest, panic |-> FALSE]
         IN Returned(ScanLoop(src_, dest, 1))

---------------------------------------------------------------------------
(* Specification SpecConvert: convertAssign applied to a destination and a value *)

Text(n) ==
    CASE n = 0 -> <<>>
      [] n = 1 -> <<"1">>
      [] n = 2 -> <<"-", "1">>
      [] n = 3 -> <<"3", "0", "0">>
      [] n = 4 -> <<"t">>
      [] OTHER -> <<"x">>

\* 0, and the powers of two up to 2^MaxPow with their neighbours, of both signs
IntSources ==
    {0} \cup { sg * (Pow2(k) + o) : sg \in {1, -1}, k \in 0..MaxPow, o \in {-1, 0, 1} }

ConvertSources ==
    {Nil, Error(<<"E">>), GoString(<<"s">>)}
        \cup { Bulk(Text(n)) : n \in 0..5 }
        \cup { Int64(n) : n \in IntSources }
        \cup { Values(<<>>), Values(<<Nil>>), Values(<<Bulk(Text(1)), Nil>>),
               Values(<<Bulk(Text(1)), Int64(2)>>), Values(<<Error(<<"E">>)>>),
               Values(<<Int64(300), Bulk(Text(5))>>) }

IntKinds == SignedKinds \cup UnsignedKinds

\* each destination holds a value that is not the zero value of its type
ConvertDests ==
    {NilDest, ValueDest(BasicType("int"), 7)}
        \cup { PtrDest(BasicType(k), 7) : k \in IntKinds \cup FloatKinds }
        \cup { PtrDest(BasicType("bool"), TRUE),
               PtrDest(BasicType("string"), <<"o">>),
               PtrDest(BasicType("interface"), Int64(7)),
               PtrDest(StructType(<<"S">>, <<>>), Nil),
               PtrDest(SliceType(BasicType("uint8")), [len |-> 1, arr |-> <<"o">>]),
               PtrDest(SliceType(BasicType("interface")), [len |-> 1, arr |-> <<Int64(7)>>]),
               PtrDest(SliceType(BasicType("int8")), [len |-> 1, arr |-> <<7, 9>>]),
               PtrDest(SliceType(BasicType("string")), [len |-> 0, arr |-> <<>>]) }

NotConverted == [called |-> FALSE, d |-> NilDest, err |-> NoErr]

NotScanned ==
    [called |-> FALSE, rest |-> <<>>, restnil |-> FALSE, err |-> NoErr, dest |-> <<>>,
     panic |-> FALSE]

CompilePending == [st |-> "pending", depth |-> EmptyMap, ss |-> NewStructSpec, panic |-> <<>>]

NotAppended == [called |-> FALSE, args |-> <<>>, err |-> NoErr, panic |-> <<>>]

NotScannedStruct == [called |-> FALSE, err |-> NoErr, val |-> EmptyMap, panic |-> <<>>]

StructIdle ==
    /\ asrc = [k |-> "value", t |-> BasicType("int"), val |-> EmptyMap]
    /\ ares = NotAppended
    /\ stres = NotScannedStruct

CompileIdle ==
    /\ ctype = StructType(<<"T">>, <<>>)
    /\ cout = CompilePending

CacheIdle ==
    /\ structSpecCache = EmptyMap
    /\ structSpecMutex = [readers |-> {}, writer |-> 0]
    /\ heap = EmptyMap
    /\ pc = EmptyMap
    /\ targ = EmptyMap
    /\ lss = EmptyMap
    /\ lfound = EmptyMap
    /\ ret = EmptyMap
    /\ ncalls = 0

ConvertIdle ==
    /\ cdest = NilDest
    /\ csrc = Nil
    /\ cres = NotConverted

ScanIdle ==
    /\ stream = <<>>
    /\ src = <<>>
    /\ destIn = <<>>
    /\ taken = 0
    /\ sres = NotScanned

InitConvert ==
    /\ cdest \in ConvertDests
    /\ csrc \in ConvertSources
    /\ cres = NotConverted
    /\ ScanIdle
    /\ CompileIdle
    /\ CacheIdle
    /\ StructIdle

\* err = convertAssign(d, s)
Convert ==
    /\ ~cres.called
    /\ \E r \in {convertAssign(cdest, csrc)} :
          cres' = [called |-> TRUE, d |-> r.d, err |-> r.err]
    /\ UNCHANGED <<cdest, csrc, compileVars, cacheVars, scanVars, structVars>>

NextConvert == Convert

SpecConvert == InitConvert /\ [][NextConvert]_vars

---------------------------------------------------------------------------
(* Claims about convertAssign, under SpecConvert *)

IntDest(d) == d.k = "ptr" /\ d.t.Kind \in IntKinds

\* n is a value of the integer kind
Fits(n, kind) ==
    IF kind \in SignedKinds
    THEN Bits(kind) >= 32 \/ (0 - Pow2(Bits(kind) - 1) <= n /\ n <= Pow2(Bits(kind) - 1) - 1)
    ELSE n >= 0 /\ (Bits(kind) >= 32 \/ n <= Pow2(Bits(kind)) - 1)

\* C6: an Integer source that fits the integer destination is stored exactly
\* and without error; one that does not fit (too large, too small, negative
\* for an unsigned destination) fails with the range error, and the
\* destination then holds 0 or the value it held before, never the wrapped
\* source.
C6_IntegerRange ==
    (cres.called /\ csrc.k = "int64" /\ IntDest(cdest)) =>
        IF Fits(csrc.v, cdest.t.Kind)
        THEN cres.err = NoErr /\ cres.d.val = csrc.v
        ELSE cres.err = ErrRange /\ cres.d.val \in {0, cdest.val}

\* the case of C6 that wraps: 128 converted into an int8, and 65536 into a uint16
C6_Witness ==
    /\ cres.called
    /\ cres.err = ErrRange
    /\ \/ csrc = Int64(128) /\ cdest.t.Kind = "int8" /\ cdest.k = "ptr"
       \/ csrc = Int64(65536) /\ cdest.t.Kind = "uint16" /\ cdest.k = "ptr"

RECURSIVE WithoutNil(_)
WithoutNil(vs) ==
    IF vs = <<>> THEN <<>>
    ELSE IF Head(vs) = Nil THEN WithoutNil(Tail(vs))
    ELSE <<Head(vs)>> \o WithoutNil(Tail(vs))

\* a pointer to a slice that convertAssign fills element by element
TypedSliceDest(d) == d.k = "ptr" /\ d.t.Kind = "slice" /\ DestCase(d) = "default"

\* the slot of element i as convertAssignValues hands it to the conversion
SlotBefore(d, n, i) == IF n > Len(d.val.arr) THEN Zero(d.t.Elem[1]) ELSE d.val.arr[i]

\* C2: a Null source never produces an error and never changes its
\* destination: as the value converted by convertAssign (a positional value of
\* Scan), and as an element of a sequence converted element by element (the
\* sequence converts whenever it converts without its Null elements, and the
\* slots of the Null elements are left alone).
C2_NullIsSkipped ==
    cres.called =>
        /\ csrc = Nil => (cres.err = NoErr /\ cres.d = cdest)
        /\ (csrc.k = "values" /\ TypedSliceDest(cdest)
               /\ convertAssign(cdest, Values(WithoutNil(csrc.v))).err = NoErr) =>
              /\ cres.err = NoErr
              /\ \A i \in 1..Len(csrc.v) :
                    csrc.v[i] = Nil => cres.d.val.arr[i] = SlotBefore(cdest, Len(csrc.v), i)

\* the same, of the value handed to convertAssign alone
C2_NullTopLevel == (cres.called /\ csrc = Nil) => (cres.err = NoErr /\ cres.d = cdest)

\* C7: a protocol-level Error source makes the conversion fail with that same
\* Error: as the value converted by convertAssign (a positional value of Scan),
\* and as the first element to fail of a sequence converted element by element.
C7_ErrorPassedThrough ==
    cres.called =>
        /\ csrc.k = "Error" => cres.err = ErrorValue(csrc)
        /\ (csrc.k = "values" /\ TypedSliceDest(cdest)) =>
              \A i \in 1..Len(csrc.v) :
                  (/\ csrc.v[i].k = "Error"
                   /\ convertAssign(cdest, Values(SubSeq(csrc.v, 1, i - 1))).err = NoErr)
                      => cres.err = ErrorValue(csrc.v[i])

\* the same, of the value handed to convertAssign alone
C7_ErrorTopLevel == (cres.called /\ csrc.k = "Error") => cres.err = ErrorValue(csrc)

---------------------------------------------------------------------------
(* Specification SpecScan: Scan in a loop over a reply, k values at a time *)

ScanSources ==
    {Nil, Bulk(Text(1)), Int64(300), Values(<<Bulk(Text(1)), Nil>>), Error(<<"E">>),
     GoString(<<"s">>)}

ScanDests ==
    {NilDest, ValueDest(BasicType("int"), 7),
     PtrDest(BasicType("int"), 7),
     PtrDest(BasicType("uint8"), 7),
     PtrDest(BasicType("interface"), Int64(7)),
     PtrDest(SliceType(BasicType("int8")), [len |-> 1, arr |-> <<7, 9>>])}

SeqsUpTo(S, n) == UNION { [1..k -> S] : k \in 0..n }

InitScan ==
    /\ stream \in SeqsUpTo(ScanSources, MaxSrc)
    /\ src = stream
    /\ destIn \in SeqsUpTo(ScanDests, MaxDest)
    /\ taken = 0
    /\ sres = NotScanned
    /\ ConvertIdle
    /\ CompileIdle
    /\ CacheIdle
    /\ StructIdle

\* src, err = Scan(src, dest...): the first call on the reply, each later one
\* on the remainder the call before returned, into the same variables
DoScan ==
    /\ ~sres.called \/ (~sres.panic /\ sres.err = NoErr /\ Len(sres.rest) > 0)
    /\ LET s == IF sres.called THEN sres.rest ELSE stream
           d == IF sres.called THEN sres.dest ELSE destIn
       IN /\ src' = s
          /\ destIn' = d
          /\ taken' = IF sres.called THEN taken + Len(destIn) ELSE 0
          /\ \E r \in {Scan(s, d)} :
                sres' = [called |-> TRUE, rest |-> r.rest, restnil |-> r.restnil,
                         err |-> r.err, dest |-> r.dest, panic |-> r.panic]
    /\ UNCHANGED <<stream, convertVars, compileVars, cacheVars, structVars>>

NextScan == DoScan

SpecScan == InitScan /\ [][NextScan]_vars

---------------------------------------------------------------------------
(* Claims about Scan, under SpecScan *)

\* C8: Scan given fewer values than destinations fails with the short-reply
\* error before it converts anything: it returns a nil remainder and leaves
\* every destination as it was.
C8_ShortFails ==
    (sres.called /\ Len(src) < Len(destIn)) =>
        /\ sres.err = ErrorsNew("redigo: Scan multibulk short")
        /\ sres.restnil /\ sres.rest = <<>>
        /\ ~sres.panic
        /\ sres.dest = destIn

\* a later call of the loop is left with one value for two destinations, the
\* first of which would have converted it
C8_Witness ==
    /\ sres.called
    /\ taken > 0
    /\ Len(src) = 1 /\ Len(destIn) = 2
    /\ src[1].k = "bytes" /\ DestCase(destIn[1]) = "*interface{}"

\* C9: when Scan succeeds, the remainder it returns is src after its first
\* len(dest) values; over the loop the calls take the reply k values at a
\* time, in order: each call starts where the one before stopped, and a
\* *interface{} destination receives the value at its own position.
C9_RemainderIsSuffix ==
    (sres.called /\ ~sres.panic /\ ~sres.restnil /\ sres.err = NoErr) =>
        /\ Len(sres.rest) = Len(src) - Len(destIn)
        /\ sres.rest = SubSeq(src, Len(destIn) + 1, Len(src))
        /\ src = SubSeq(stream, taken + 1, Len(stream))
        /\ sres.rest = SubSeq(stream, taken + Len(destIn) + 1, Len(stream))
        /\ \A i \in 1..Len(destIn) :
              (DestCase(destIn[i]) = "*interface{}" /\ stream[taken + i] # Nil) =>
                  sres.dest[i].val = stream[taken + i]

\* the second call of a loop succeeded on the remainder of the first
C9_Witness ==
    /\ sres.called
    /\ taken > 0
    /\ sres.err = NoErr /\ ~sres.panic /\ ~sres.restnil
    /\ Len(destIn) = 1
    /\ DestCase(destIn[1]) = "*interface{}"
    /\ sres.dest[1].val = stream[2]

---------------------------------------------------------------------------
(* The struct types the model compiles *)

Digits == <<"1", "2", "3", "4", "5", "6", "7", "8", "9">>

IntType == BasicType("int")

\* the fields a struct of the model declares: X and Y untagged, X excluded,
\* Y renamed to X, Z with a flag after its name, and an unexported field
PlainChoices ==
    { PlainField(<<"X">>, <<>>, IntType),
      PlainField(<<"Y">>, <<>>, IntType),
      PlainField(<<"X">>, <<"-">>, IntType),
      PlainField(<<"Y">>, <<"X">>, IntType),
      PlainField(<<"Z">>, <<"X", ",", "f">>, IntType),
      UnexportedField(<<"x">>, IntType) }

\* what the outer struct declares at one position: a plain field, a plain
\* field under d levels of embedded structs, or an embedded pointer to a struct
\* (its kind is ptr, and compileStructSpec skips it)
MemberDescs(choices, D) ==
    { [k |-> "field", f |-> f, d |-> d] : f \in choices, d \in 0..D }
        \cup { [k |-> "ptr", f |-> UnexportedField(<<"x">>, IntType), d |-> 0] }

RECURSIVE Chain(_, _, _)
Chain(f, d, name) ==
    IF d = 0 THEN f
    ELSE EmbeddedField(StructType(name, <<Chain(f, d - 1, name \o <<"e">>)>>))

BuildField(desc, i) ==
    IF desc.k = "ptr"
    THEN EmbeddedField([Kind |-> "ptr", TName |-> <<"P", Digits[i]>>, Fields |-> <<>>,
                        Elem |-> <<>>])
    ELSE Chain(desc.f, desc.d, <<"E", Digits[i]>>)

\* Go rejects a struct that declares two fields of the same name
ValidStruct(fields) ==
    \A i, j \in 1..Len(fields) : i # j => fields[i].Name # fields[j].Name

TypeFamily(choices, F, D) ==
    LET descs == UNION { [1..n -> MemberDescs(choices, D)] : n \in 0..F }
        build(s) == [i \in 1..Len(s) |-> BuildField(s[i], i)]
    IN { StructType(<<"T">>, build(s)) : s \in { x \in descs : ValidStruct(build(x)) } }

---------------------------------------------------------------------------
(* Specification SpecCompile: compileStructSpec applied to a struct type *)

InitCompile ==
    /\ ctype \in TypeFamily(PlainChoices, MaxFields, MaxDepth)
    /\ cout = CompilePending
    /\ CacheIdle
    /\ ConvertIdle
    /\ ScanIdle
    /\ StructIdle

\* compileStructSpec(t, make(map[string]int), nil, ss) on a fresh ss
Compile ==
    /\ cout.st = "pending"
    /\ \E r \in {compileStructSpec(ctype, EmptyMap, <<>>, NewStructSpec)} :
       cout' = [st |-> IF r.panic = <<>> THEN "done" ELSE "panicked",
                depth |-> r.depth, ss |-> r.ss, panic |-> r.panic]
    /\ UNCHANGED <<ctype, cacheVars, convertVars, scanVars, structVars>>

NextCompile == Compile

SpecCompile == InitCompile /\ [][NextCompile]_vars

---------------------------------------------------------------------------
(* Claims about compileStructSpec, under SpecCompile *)

\* the ordered list and the name map of a structSpec hold the same entries
ListMapAgree(ss) ==
    /\ \A i \in 1..Len(ss.l) :
          ss.l[i].name \in DOMAIN ss.m /\ ss.m[ss.l[i].name] = ss.l[i]
    /\ \A n \in DOMAIN ss.m :
          Cardinality({ i \in 1..Len(ss.l) : ss.l[i] = ss.m[n] }) = 1
    /\ \A i, j \in 1..Len(ss.l) : i # j => ss.l[i].name # ss.l[j].name

\* C3: after compileStructSpec finishes, the list l and the map m hold exactly
\* the same entries: each list entry is the map's entry for its name, each map
\* entry is in the list exactly once, and no name is in the list twice.
C3_ListEqualsMap == cout.st = "done" => ListMapAgree(cout.ss)

RECURSIVE Candidates(_, _)
\* the exported, named, non-excluded fields the traversal of t meets, each
\* with its resolved name and its index path
Candidates(t, index) ==
    UNION { LET f == t.Fields[i] IN
            IF f.PkgPath # <<>> THEN {}
            ELSE IF f.Anonymous
                 THEN IF f.Type.Kind = "struct"
                      THEN Candidates(f.Type, Append(index, i - 1))
                      ELSE {}
            ELSE LET p == Split(f.Tag, ",") IN
                 IF p[1] = <<"-">> THEN {}
                 ELSE { [name |-> IF Len(p[1]) > 0 THEN p[1] ELSE f.Name,
                         index |-> Append(index, i - 1)] }
          : i \in 1..NumField(t) }

InMap(c, ss) == c.name \in DOMAIN ss.m /\ ss.m[c.name] = c

InList(c, ss) == \E i \in 1..Len(ss.l) : ss.l[i] = c

InSpec(c, ss) == InMap(c, ss) \/ InList(c, ss)

\* C4: of two same-named fields at equal depth neither is in the compiled
\* spec, and of two same-named fields at different depths the deeper one is
\* not in the compiled spec, whatever the order the traversal meets them in.
C4_Shadowing ==
    cout.st = "done" =>
        \A a, b \in Candidates(ctype, <<>>) :
            (a # b /\ a.name = b.name) =>
                /\ Len(a.index) = Len(b.index) => ~InSpec(a, cout.ss) /\ ~InSpec(b, cout.ss)
                /\ Len(a.index) < Len(b.index) => ~InSpec(b, cout.ss)

\* the same, of the name map alone
C4_ShadowingInMap ==
    cout.st = "done" =>
        \A a, b \in Candidates(ctype, <<>>) :
            (a # b /\ a.name = b.name) =>
                /\ Len(a.index) = Len(b.index) => ~InMap(a, cout.ss) /\ ~InMap(b, cout.ss)
                /\ Len(a.index) < Len(b.index) => ~InMap(b, cout.ss)

---------------------------------------------------------------------------
(* Specification SpecCache: goroutines calling structSpecForType *)

Procs == 1..NumProcs

\* struct { X int; Y int }
TypeA == StructType(<<"A">>, <<PlainField(<<"X">>, <<>>, IntType), PlainField(<<"Y">>, <<>>, IntType)>>)

\* struct { E; Y int `redis:"X"` } with E struct { X int }
TypeB ==
    StructType(<<"B">>,
        <<EmbeddedField(StructType(<<"E">>, <<PlainField(<<"X">>, <<>>, IntType)>>)),
          PlainField(<<"Y">>, <<"X">>, IntType)>>)

\* struct { X int; Z int `redis:"X,f"` }: the tag names a flag
TypeBad ==
    StructType(<<"Bad">>,
        <<PlainField(<<"X">>, <<>>, IntType), PlainField(<<"Z">>, <<"X", ",", "f">>, IntType)>>)

CacheTypes == {TypeA, TypeB, TypeBad}

NoReturn == [k |-> "none", ss |-> 0, panic |-> <<>>]

InitCache ==
    /\ structSpecCache = EmptyMap
    /\ structSpecMutex = [readers |-> {}, writer |-> 0]
    /\ heap = EmptyMap
    /\ pc = [p \in Procs |-> "idle"]
    /\ targ = [p \in Procs |-> TypeA]
    /\ lss = [p \in Procs |-> 0]
    /\ lfound = [p \in Procs |-> FALSE]
    /\ ret = [p \in Procs |-> NoReturn]
    /\ ncalls = 0
    /\ CompileIdle
    /\ ConvertIdle
    /\ ScanIdle
    /\ StructIdle

\* ss, found := structSpecCache[t]
CacheLookup(t) ==
    IF t \in DOMAIN structSpecCache
    THEN [ss |-> structSpecCache[t], found |-> TRUE]
    ELSE [ss |-> 0, found |-> FALSE]

\* the second lookup, made under the exclusive lock
CacheLookupSkipped(t) == [ss |-> 0, found |-> FALSE]

CacheLookupLocked(t) == CacheLookup(t)

\* a panic unwinding through structSpecForType leaves the mutex locked
KeepLockedOnPanic(mu) == mu

\* defer structSpecMutex.Unlock(), run as the panic unwinds
UnlockOnPanic(mu) == [mu EXCEPT !.writer = 0]

\* a goroutine calls structSpecForType(t) (from ScanStruct or AppendStruct)
Call(p, t) ==
    /\ pc[p] = "idle"
    /\ ncalls < MaxCalls
    /\ ncalls' = ncalls + 1
    /\ targ' = [targ EXCEPT ![p] = t]
    /\ lss' = [lss EXCEPT ![p] = 0]
    /\ lfound' = [lfound EXCEPT ![p] = FALSE]
    /\ ret' = [ret EXCEPT ![p] = NoReturn]
    /\ pc' = [pc EXCEPT ![p] = "rlock"]
    /\ UNCHANGED <<structSpecCache, structSpecMutex, heap, notCacheVars>>

\* structSpecMutex.RLock(): waits while a writer holds the mutex
RLock(p) ==
    /\ pc[p] = "rlock"
    /\ structSpecMutex.writer = 0
    /\ structSpecMutex' = [structSpecMutex EXCEPT !.readers = @ \cup {p}]
    /\ pc' = [pc EXCEPT ![p] = "rread"]
    /\ UNCHANGED <<structSpecCache, heap, targ, lss, lfound, ret, ncalls, notCacheVars>>

\* ss, found := structSpecCache[t], under the shared lock
ReadShared(p) ==
    /\ pc[p] = "rread"
    /\ LET r == CacheLookup(targ[p]) IN
       /\ lss' = [lss EXCEPT ![p] = r.ss]
       /\ lfound' = [lfound EXCEPT ![p] = r.found]
    /\ pc' = [pc EXCEPT ![p] = "runlock"]
    /\ UNCHANGED <<structSpecCache, structSpecMutex, heap, targ, ret, ncalls, notCacheVars>>

\* structSpecMutex.RUnlock(); if found { return ss }
RUnlock(p) ==
    /\ pc[p] = "runlock"
    /\ structSpecMutex' = [structSpecMutex EXCEPT !.readers = @ \ {p}]
    /\ IF lfound[p]
       THEN /\ ret' = [ret EXCEPT ![p] = [k |-> "spec", ss |-> lss[p], panic |-> <<>>]]
            /\ pc' = [pc EXCEPT ![p] = "idle"]
       ELSE /\ ret' = ret
            /\ pc' = [pc EXCEPT ![p] = "lock"]
    /\ UNCHANGED <<structSpecCache, heap, targ, lss, lfound, ncalls, notCacheVars>>

\* structSpecMutex.Lock(): waits for the readers and the writer to leave
Lock(p) ==
    /\ pc[p] = "lock"
    /\ structSpecMutex.writer = 0
    /\ structSpecMutex.readers = {}
    /\ structSpecMutex' = [structSpecMutex EXCEPT !.writer = p]
    /\ pc' = [pc EXCEPT ![p] = "recheck"]
    /\ UNCHANGED <<structSpecCache, heap, targ, lss, lfound, ret, ncalls, notCacheVars>>

\* ss, found = structSpecCache[t], under the exclusive lock
Recheck(p) ==
    /\ pc[p] = "recheck"
    /\ LET r == CacheLookupLocked(targ[p]) IN
       /\ lss' = [lss EXCEPT ![p] = r.ss]
       /\ lfound' = [lfound EXCEPT ![p] = r.found]
       /\ pc' = [pc EXCEPT ![p] = IF r.found THEN "unlock" ELSE "alloc"]
    /\ UNCHANGED <<structSpecCache, structSpecMutex, heap, targ, ret, ncalls, notCacheVars>>

\* ss = &structSpec{m: make(map[string]*fieldSpec)}
Alloc(p) ==
    /\ pc[p] = "alloc"
    /\ LET id == Cardinality(DOMAIN heap) + 1 IN
       /\ heap' = MapPut(heap, id, NewStructSpec)
       /\ lss' = [lss EXCEPT ![p] = id]
    /\ pc' = [pc EXCEPT ![p] = "compile"]
    /\ UNCHANGED <<structSpecCache, structSpecMutex, targ, lfound, ret, ncalls, notCacheVars>>

\* compileStructSpec(t, make(map[string]int), nil, ss): fills *ss, or panics
CompileLocked(p) ==
    /\ pc[p] = "compile"
    /\ \E r \in {compileStructSpec(targ[p], EmptyMap, <<>>, heap[lss[p]])} :
       /\ heap' = [heap EXCEPT ![lss[p]] = r.ss]
       /\ IF r.panic = <<>>
          THEN /\ pc' = [pc EXCEPT ![p] = "insert"]
               /\ ret' = ret
          ELSE /\ pc' = [pc EXCEPT ![p] = "panicking"]
               /\ ret' = [ret EXCEPT ![p] = [k |-> "panic", ss |-> lss[p], panic |-> r.panic]]
    /\ UNCHANGED <<structSpecCache, structSpecMutex, targ, lss, lfound, ncalls, notCacheVars>>

\* structSpecCache[t] = ss
Insert(p) ==
    /\ pc[p] = "insert"
    /\ structSpecCache' = MapPut(structSpecCache, targ[p], lss[p])
    /\ pc' = [pc EXCEPT ![p] = "unlock"]
    /\ UNCHANGED <<structSpecMutex, heap, targ, lss, lfound, ret, ncalls, notCacheVars>>

\* return ss, and the deferred structSpecMutex.Unlock()
Unlock(p) ==
    /\ pc[p] = "unlock"
    /\ structSpecMutex' = [structSpecMutex EXCEPT !.writer = 0]
    /\ ret' = [ret EXCEPT ![p] = [k |-> "spec", ss |-> lss[p], panic |-> <<>>]]
    /\ pc' = [pc EXCEPT ![p] = "idle"]
    /\ UNCHANGED <<structSpecCache, heap, targ, lss, lfound, ncalls, notCacheVars>>

\* the panic leaves structSpecForType: its deferred call runs, and the caller
\* that recovers goes on
Unwind(p) ==
    /\ pc[p] = "panicking"
    /\ structSpecMutex' = UnlockOnPanic(structSpecMutex)
    /\ pc' = [pc EXCEPT ![p] = "idle"]
    /\ UNCHANGED <<structSpecCache, heap, targ, lss, lfound, ret, ncalls, notCacheVars>>

NextCache ==
    \E p \in Procs :
        \/ \E t \in CacheTypes : Call(p, t)
        \/ RLock(p)
        \/ ReadShared(p)
        \/ RUnlock(p)
        \/ Lock(p)
        \/ Recheck(p)
        \/ Alloc(p)
        \/ CompileLocked(p)
        \/ Insert(p)
        \/ Unlock(p)
        \/ Unwind(p)

SpecCache == InitCache /\ [][NextCache]_vars

---------------------------------------------------------------------------
(* Claims about structSpecForType, under SpecCache *)

\* one sequential compile of t on a fresh structSpec
Compiled(t) == compileStructSpec(t, EmptyMap, <<>>, NewStructSpec)

LockedRegion == {"recheck", "alloc", "compile", "insert", "unlock", "panicking"}

\* every cached entry is a fully compiled spec, and every returned spec is the
\* cached one, equal to a sequential compile of the caller's type
CacheComplete ==
    /\ \A t \in DOMAIN structSpecCache :
          /\ Compiled(t).panic = <<>>
          /\ heap[structSpecCache[t]] = Compiled(t).ss
    /\ \A p \in Procs :
          ret[p].k = "spec" =>
              /\ targ[p] \in DOMAIN structSpecCache
              /\ ret[p].ss = structSpecCache[targ[p]]
              /\ heap[ret[p].ss] = Compiled(targ[p]).ss

\* an entry, once present, stays, and stays the same structSpec
EntryKept ==
    \A t \in DOMAIN structSpecCache :
        t \in DOMAIN structSpecCache' /\ structSpecCache'[t] = structSpecCache[t]

\* C1: under any interleaving of structSpecForType calls, every call that
\* returns gives a fully compiled structSpec equal to a sequential compile of
\* its type, the cache never holds a partially compiled spec, and an entry
\* once present is never removed or replaced.
C1_CacheConverges == [](CacheComplete) /\ [][EntryKept]_vars

\* two goroutines missed the same type under the shared lock; one compiled
\* and returned, the other found that entry under the exclusive lock
C1_Witness ==
    \E p, q \in Procs :
        /\ p # q
        /\ targ[p] = targ[q]
        /\ ret[p].k = "spec" /\ pc[p] = "idle"
        /\ pc[q] = "unlock" /\ lfound[q]
        /\ lss[q] = ret[p].ss

\* C10: when the compile of a type panics on a field flag, the exclusive lock
\* is released and no entry is inserted for that type; the mutex is held only
\* by a goroutine still inside structSpecForType, so later calls are not
\* blocked; a call for a type without flags returns a spec, and every call for
\* the offending type panics with the same error.
C10_PanicReleasesLock ==
    /\ \A t \in DOMAIN structSpecCache : Compiled(t).panic = <<>>
    /\ structSpecMutex.writer # 0 => pc[structSpecMutex.writer] \in LockedRegion
    /\ \A p \in structSpecMutex.readers : pc[p] \in {"rread", "runlock"}
    /\ \A p \in Procs :
          (pc[p] = "idle" /\ ret[p].k # "none") =>
              IF Compiled(targ[p]).panic # <<>>
              THEN ret[p].k = "panic" /\ ret[p].panic = Compiled(targ[p]).panic
              ELSE ret[p].k = "spec"

\* a call panicked and unwound, and a later compile of another type was
\* cached and returned
C10_Witness ==
    \E p, q \in Procs :
        /\ pc[p] = "idle" /\ ret[p].k = "panic"
        /\ pc[q] = "idle" /\ ret[q].k = "spec"
        /\ ret[q].ss > ret[p].ss
        /\ structSpecMutex.writer = 0

---------------------------------------------------------------------------
(* ScanStruct, AppendStruct, FlattenStruct *)

\* structSpecForType(t) run by one goroutine alone: the spec it returns, or
\* its panic, and the cache and the allocated specs as it leaves them
structSpecForTypeAlone(cache, hp, t) ==
    IF t \in DOMAIN cache
    THEN [ss |-> cache[t], cache |-> cache, heap |-> hp, panic |-> <<>>]
    ELSE LET id == Cardinality(DOMAIN hp) + 1
             Filled(r) ==
                 IF r.panic # <<>>
                 THEN [ss |-> 0, cache |-> cache, heap |-> MapPut(hp, id, r.ss),
                       panic |-> r.panic]
                 ELSE [ss |-> id, cache |-> MapPut(cache, t, id),
                       heap |-> MapPut(hp, id, r.ss), panic |-> <<>>]
         IN Filled(compileStructSpec(t, EmptyMap, <<>>, NewStructSpec))

RECURSIVE Leaves(_, _)
\* the variables a struct value of type t is made of: the index path and the
\* type of each field that is not an embedded struct
Leaves(t, index) ==
    UNION { LET f == t.Fields[i] IN
            IF f.Anonymous /\ f.Type.Kind = "struct"
            THEN Leaves(f.Type, Append(index, i - 1))
            ELSE { [index |-> Append(index, i - 1), type |-> f.Type, field |-> f] }
          : i \in 1..NumField(t) }

LeafType(t, index) == (CHOOSE x \in Leaves(t, <<>>) : x.index = index).type

\* reflect.Zero of a struct type: a struct value maps each index path to the
\* value of the field there
ZeroStruct(t) ==
    [ix \in { x.index : x \in Leaves(t, <<>>) } |-> Zero(LeafType(t, ix))]

\* fv.Interface(): the field's value as an interface{}
Interface(t, v) ==
    CASE t.Kind = "int64" -> Int64(v)
      [] t.Kind = "slice" /\ t.Elem[1].Kind = "uint8" -> Bulk(v.arr)
      [] OTHER -> [k |-> t.Kind, v |-> v]

\* an AppendStruct that appends the name as a []byte
FieldNameBytes(name) == Bulk(name)

\* the name AppendStruct appends: fs.name, a string
FieldNameArg(name) == GoString(name)

RECURSIVE appendFields(_, _, _, _, _)
\* the loop of AppendStruct from entry i of ss.l on
appendFields(args, t, v, l, i) ==
    IF i > Len(l) THEN args
    ELSE appendFields(args \o <<FieldNameArg(l[i].name),
                                Interface(LeafType(t, l[i].index), v[l[i].index])>>,
                      t, v, l, i + 1)

\* AppendStruct(args, src): src is a struct (k = "value"), a pointer to one
\* (k = "ptr") or a nil pointer (k = "nilptr")
AppendStruct(args, src_, cache, hp) ==
    IF src_.k = "nilptr"
    THEN [args |-> <<>>, err |-> ErrorsNew("redigo: AppendStruct argument must not be nil"),
          cache |-> cache, heap |-> hp, panic |-> <<>>]
    ELSE IF src_.t.Kind # "struct"
    THEN [args |-> <<>>,
          err |-> ErrorsNew("redigo: AppendStruct argument must be a struct or pointer to a struct"),
          cache |-> cache, heap |-> hp, panic |-> <<>>]
    ELSE LET With(r) ==
                 IF r.panic # <<>>
                 THEN [args |-> <<>>, err |-> NoErr, cache |-> r.cache, heap |-> r.heap,
                       panic |-> r.panic]
                 ELSE [args |-> appendFields(args, src_.t, src_.val, r.heap[r.ss].l, 1),
                       err |-> NoErr, cache |-> r.cache, heap |-> r.heap, panic |-> <<>>]
         IN With(structSpecForTypeAlone(cache, hp, src_.t))

\* FlattenStruct(args, src): AppendStruct, with its error turned into a panic
FlattenStruct(args, src_, cache, hp) ==
    LET Res(r) == IF r.err # NoErr THEN [r EXCEPT !.panic = <<r.err>>, !.err = NoErr] ELSE r
    IN Res(AppendStruct(args, src_, cache, hp))

\* the switch of ScanStruct on the value of a pair, for the field f
scanField(ft, fv, sv) ==
    CASE sv.k = "nil" -> [val |-> fv, err |-> NoErr]
      [] sv.k = "bytes" -> convertAssignBytes(ft, fv, sv.v)
      [] sv.k = "int64" -> convertAssignInt(ft, fv, sv.v)
      [] OTHER -> [val |-> fv, err |-> cannotConvert(ft, sv)]

RECURSIVE scanPairs(_, _, _, _, _)
\* the loop of ScanStruct from src[i] on (i counts from 1): v is the struct
\* so far; it stops at the first error
scanPairs(src_, t, v, ss, i) ==
    IF i > Len(src_) THEN [val |-> v, err |-> NoErr]
    ELSE IF src_[i].k # "bytes"
    THEN [val |-> v, err |-> ErrorsNew("redigo: ScanStruct key not a bulk value")]
    ELSE IF src_[i].v \notin DOMAIN ss.m THEN scanPairs(src_, t, v, ss, i + 2)
    ELSE LET fs == ss.m[src_[i].v]
             Step(r) ==
                 IF r.err # NoErr
                 THEN [val |-> [v EXCEPT ![fs.index] = r.val], err |-> r.err]
                 ELSE scanPairs(src_, t, [v EXCEPT ![fs.index] = r.val], ss, i + 2)
         IN Step(scanField(LeafType(t, fs.index), v[fs.index], src_[i + 1]))

\* ScanStruct(src, dest): dest is a pointer to a struct (k = "ptr"), a nil
\* pointer (k = "nilptr") or no pointer (k = "value")
ScanStruct(src_, dest, cache, hp) ==
    IF dest.k # "ptr"
    THEN [val |-> dest.val, err |-> ErrorsNew("redigo: ScanStruct value must be non-nil pointer"),
          cache |-> cache, heap |-> hp, panic |-> <<>>]
    ELSE IF dest.t.Kind # "struct"
    THEN [val |-> dest.val, err |-> NoErr, cache |-> cache, heap |-> hp,
          panic |-> <<Panic("reflect: NumField of non-struct type")>>]
    ELSE LET Scanned(r, q) ==
                 [val |-> q.val, err |-> q.err, cache |-> r.cache, heap |-> r.heap,
                  panic |-> <<>>]
             With(r) ==
                 IF r.panic # <<>>
                 THEN [val |-> dest.val, err |-> NoErr, cache |-> r.cache, heap |-> r.heap,
                       panic |-> r.panic]
                 ELSE IF Len(src_) % 2 # 0
                 THEN [val |-> dest.val,
                       err |-> ErrorsNew("redigo: ScanStruct expects even number of values in values"),
                       cache |-> r.cache, heap |-> r.heap, panic |-> <<>>]
                 ELSE Scanned(r, scanPairs(src_, dest.t, dest.val, r.heap[r.ss], 1))
         IN With(structSpecForTypeAlone(cache, hp, dest.t))

---------------------------------------------------------------------------
(* Specification SpecStruct: a struct is flattened by AppendStruct or       *)
(* FlattenStruct and the result scanned into a zeroed struct of its type    *)

StringType == BasicType("string")

\* the fields of these structs: X int, Y string, Y int64 renamed to X, a
\* field excluded by its tag, Z with a flag after its name, an unexported x
StructChoices ==
    { PlainField(<<"X">>, <<>>, IntType),
      PlainField(<<"Y">>, <<>>, StringType),
      PlainField(<<"Y">>, <<"X">>, BasicType("int64")),
      PlainField(<<"S">>, <<"-">>, IntType),
      PlainField(<<"Z">>, <<"X", ",", "f">>, IntType),
      UnexportedField(<<"x">>, IntType) }

\* the values a variable of type t takes in the model: its zero value (n = 0)
\* and another one (n = 1)
ValueNo(t, n) ==
    CASE n = 0 -> Zero(t)
      [] t.Kind = "string" -> <<"a">>
      [] t.Kind \in IntKinds -> 5
      [] OTHER -> Zero(t)

StructValues(t) ==
    LET paths == { x.index : x \in Leaves(t, <<>>) } IN
    { [ix \in paths |-> ValueNo(LeafType(t, ix), c[ix])] : c \in [paths -> {0, 1}] }

InitStruct ==
    /\ \E k \in {"value", "ptr", "nilptr"} :
       \E t \in TypeFamily(StructChoices, RtFields, RtDepth) \cup {IntType} :
       \E v \in (IF t.Kind = "struct" THEN StructValues(t) ELSE {EmptyMap}) :
           asrc = [k |-> k, t |-> t, val |-> v]
    /\ ares = NotAppended
    /\ stres = NotScannedStruct
    /\ structSpecCache = EmptyMap
    /\ structSpecMutex = [readers |-> {}, writer |-> 0]
    /\ heap = EmptyMap
    /\ pc = EmptyMap
    /\ targ = EmptyMap
    /\ lss = EmptyMap
    /\ lfound = EmptyMap
    /\ ret = EmptyMap
    /\ ncalls = 0
    /\ CompileIdle
    /\ ConvertIdle
    /\ ScanIdle

structOthers ==
    <<structSpecMutex, pc, targ, lss, lfound, ret, ncalls, compileVars, convertVars, scanVars>>

\* args, err := AppendStruct(nil, src)
DoAppend ==
    /\ ~ares.called
    /\ \E r \in {AppendStruct(<<>>, asrc, structSpecCache, heap)} :
       /\ ares' = [called |-> TRUE, args |-> r.args, err |-> r.err, panic |-> r.panic]
       /\ structSpecCache' = r.cache
       /\ heap' = r.heap
    /\ UNCHANGED <<asrc, stres, structOthers>>

\* args := FlattenStruct(nil, src)
DoFlatten ==
    /\ ~ares.called
    /\ \E r \in {FlattenStruct(<<>>, asrc, structSpecCache, heap)} :
       /\ ares' = [called |-> TRUE, args |-> r.args, err |-> r.err, panic |-> r.panic]
       /\ structSpecCache' = r.cache
       /\ heap' = r.heap
    /\ UNCHANGED <<asrc, stres, structOthers>>

\* err := ScanStruct(args, &fresh), fresh a zeroed struct of the type of src
DoScanStruct ==
    /\ ares.called /\ ares.err = NoErr /\ ares.panic = <<>>
    /\ ~stres.called
    /\ \E r \in {ScanStruct(ares.args,
                            [k |-> "ptr", t |-> asrc.t, val |-> ZeroStruct(asrc.t)],
                            structSpecCache, heap)} :
          /\ stres' = [called |-> TRUE, err |-> r.err, val |-> r.val, panic |-> r.panic]
          /\ structSpecCache' = r.cache
          /\ heap' = r.heap
    /\ UNCHANGED <<asrc, ares, structOthers>>

NextStruct == DoAppend \/ DoFlatten \/ DoScanStruct

SpecStruct == InitStruct /\ [][NextStruct]_vars

---------------------------------------------------------------------------
(* Claims about the round trip, under SpecStruct *)

\* the compiled spec of the struct handed to AppendStruct
SpecOfSource == heap[structSpecCache[asrc.t]]

\* args lists, for each entry of the compiled list in order, the entry's name
\* as a string and the value of its field in the source struct
ArgsOfList(args, l) ==
    /\ Len(args) = 2 * Len(l)
    /\ \A i \in 1..Len(l) :
          /\ args[2 * i - 1] = GoString(l[i].name)
          /\ args[2 * i] = Interface(LeafType(asrc.t, l[i].index), asrc.val[l[i].index])

\* C5 as stated: ScanStruct of the flattened struct into a zeroed struct of
\* the same type succeeds and reproduces every field whose tag is not "-".
C5_RoundTripAsStated ==
    stres.called =>
        /\ stres.err = NoErr /\ stres.panic = <<>>
        /\ \A x \in Leaves(asrc.t, <<>>) :
              Split(x.field.Tag, ",")[1] # <<"-">> => stres.val[x.index] = asrc.val[x.index]

\* C5, amended: AppendStruct from an empty accumulator gives one name and
\* value per entry of the compiled list, in order, the name as a string and
\* the value as the source struct holds it. That sequence is no reply:
\* handed to ScanStruct with a zeroed struct of the same type, ScanStruct
\* fails on its first key with "key not a bulk value" (it succeeds only on the
\* empty sequence), and leaves the struct zeroed.
C5_RoundTripRejected ==
    stres.called =>
        /\ ArgsOfList(ares.args, SpecOfSource.l)
        /\ stres.panic = <<>>
        /\ stres.err = IF ares.args = <<>> THEN NoErr
                       ELSE ErrorsNew("redigo: ScanStruct key not a bulk value")
        /\ stres.val = ZeroStruct(asrc.t)

\* a struct with a non-zero exported field was flattened to a pair carrying
\* that value, and ScanStruct was called on the pair
C5_Witness ==
    /\ stres.called
    /\ Len(ares.args) >= 2
    /\ ares.args[2] = [k |-> "int", v |-> 5]
    /\ stres.val # asrc.val

=============================================================================
